---- MODULE Spec2Model ----
(***************************************************************************)
(* Model of src/app.js: the wiki crawl controller of the "Corporate        *)
(* Documentation AI Analyzer".                                             *)
(*                                                                         *)
(* Strings.  A URL string is modelled by the tokens it is made of:         *)
(*   [ws, scheme, host, port, path]  stands for the string                 *)
(*   <ws blanks> scheme "://" host [":" port] ("/" segment)*               *)
(* when it has a scheme (and then a host), for                             *)
(*   <ws blanks> "//" host [":" port] ("/" segment)*                       *)
(* when it has a host and no scheme, and for <ws blanks> ("/" segment)*    *)
(* when it has neither: the last two are relative references.  Tokens hold *)
(* no "/", ":" or blank, so two records are equal exactly when the strings *)
(* they stand for are equal.                                               *)
(*                                                                         *)
(* Scheduling.  JavaScript runs one task at a time; an async function runs *)
(* without interruption from one await of a fetch or a timer to the next.  *)
(* Each action below is one such task: a click on "send", the completion   *)
(* of a fetch, the expiry of a pause timer, a change of a URL input, a     *)
(* click on "add" or "remove".                                             *)
(*                                                                         *)
(* Objects.  app.resources holds objects {id, url}.  collectContext keeps  *)
(* the objects that pass its filter and reads the url of each one when its *)
(* loop reaches it, so a run sees the URL an object has at that turn, not  *)
(* the one it had at the click.  obj names the object: ids come from       *)
(* Date.now() and two objects made in the same millisecond share theirs.   *)
(***************************************************************************)
EXTENDS Integers, Sequences, FiniteSets, TLC

VARIABLES
    resources,        \* app.resources: records [obj, id, url], in order
    clock,            \* the last value Date.now() gave addResource
    made,             \* the number of resource objects made so far
    edits,            \* the changes of the resource list so far
    world,            \* which web (link graph) the page fetcher sees
    visitedUrls,      \* app.visitedUrls
    processedSpaces,  \* app.processedSpaces (keys server::space)
    contextData,      \* app.contextData: <<>> or <<document>>
    runs,             \* one record per sendQuery invocation that reached collectContext
    purl,             \* input of the parseWikiUrl check
    pres              \* <<>> or <<result of parseWikiUrl(purl)>>

vars == <<resources, clock, made, edits, world, visitedUrls, processedSpaces, contextData,
          runs, purl, pres>>

(***************************************************************************)
(* Bounds of the model.                                                    *)
(***************************************************************************)
\* sendQuery invocations with a non-empty query in one behaviour
MaxRuns == 2
\* fetches that do not succeed with non-empty text, in one behaviour
MaxFails == 1
\* raw path segments of the strings parseWikiUrl is checked on
MaxPathLen == 4
\* changes of the resource list (a URL typed, a resource added or removed) in
\* one behaviour
MaxEdits == 2

(***************************************************************************)
(* Program constants.                                                      *)
(***************************************************************************)
\* .slice(0, 20) of Phase 2
OtherSpaceLimit == 20
\* .slice(0, 10) of Phase 3
ExternalLimit == 10

(***************************************************************************)
(* URL strings and the URL parser (new URL(url)) as parseWikiUrl uses it.  *)
(***************************************************************************)
Str(ws, scheme, host, port, path) ==
    [ws |-> ws, scheme |-> scheme, host |-> host, port |-> port, path |-> path]

\* the empty string
EmptyStr == Str(0, "", "", "", <<>>)

\* String.prototype.trim
Trim(s) == [s EXCEPT !.ws = 0]

\* ASCII lower-casing of the scheme and host tokens of the model
ToLower(t) ==
    CASE t = "HTTPS" -> "https"
      [] t = "HTTP"  -> "http"
      [] t = "H1"    -> "h1"
      [] OTHER       -> t

\* the default port of a special scheme, which the URL parser drops
DefaultPort(scheme) ==
    CASE scheme = "https" -> "443"
      [] scheme = "http"  -> "80"
      [] OTHER            -> ""

\* the records that stand for a string
WellFormed(s) ==
    /\ s.scheme # "" => s.host # ""
    /\ s.host = "" => s.port = ""

\* new URL(s) throws: a relative reference, with no base to resolve it against
UrlThrows(s) == s.scheme = ""

\* the URL parser's path state: "." and ".." segments are resolved, and a
\* URL without a path gets the path "/"
RECURSIVE RemoveDots(_, _)
RemoveDots(raw, acc) ==
    IF raw = <<>> THEN acc
    ELSE LET s    == Head(raw)
             last == Len(raw) = 1
             tail == IF last THEN <<"">> ELSE <<>>
         IN  IF s = ".."
             THEN RemoveDots(Tail(raw),
                     (IF acc = <<>> THEN acc ELSE SubSeq(acc, 1, Len(acc) - 1)) \o tail)
             ELSE IF s = "."
             THEN RemoveDots(Tail(raw), acc \o tail)
             ELSE RemoveDots(Tail(raw), Append(acc, s))

\* urlObj.pathname.split('/'): the leading "" and then the resolved segments
PathParts(s) == <<"">> \o (IF s.path = <<>> THEN <<"">> ELSE RemoveDots(s.path, <<>>))

\* `${urlObj.protocol}//${urlObj.host}`: lower case, default port dropped
Origin(s) ==
    LET sch == ToLower(s.scheme)
    IN  [scheme |-> sch, host |-> ToLower(s.host),
         port |-> IF s.port = DefaultPort(sch) THEN "" ELSE s.port]

\* (lastIndexOf in place of indexOf)
IndexOf_Last(seq, x) ==
    IF \E i \in 1..Len(seq) : seq[i] = x
    THEN CHOOSE i \in 1..Len(seq) : seq[i] = x /\ \A j \in (i + 1)..Len(seq) : seq[j] # x
    ELSE 0

\* Array.prototype.indexOf, as a 1-based index; 0 stands for -1
IndexOf(seq, x) ==
    IF \E i \in 1..Len(seq) : seq[i] = x
    THEN CHOOSE i \in 1..Len(seq) : seq[i] = x /\ \A j \in 1..(i - 1) : seq[j] # x
    ELSE 0

\* (spacesIndex + 1 in range, the segment not tested)
HasSpaceName_NoEmptyCheck(parts, i) == i # 0 /\ i + 1 <= Len(parts)

\* pathParts[spacesIndex + 1] is truthy: it exists and is not ''
HasSpaceName(parts, i) == i # 0 /\ i + 1 <= Len(parts) /\ parts[i + 1] # ""

\* parseWikiUrl(url): lines 15-38
parseWikiUrl(url) ==
    IF UrlThrows(url) THEN [isValid |-> FALSE]
    ELSE LET parts == PathParts(url)
             i     == IndexOf(parts, "spaces")
         IN  IF HasSpaceName(parts, i)
             THEN [wikiServer |-> Origin(url), spaceName |-> parts[i + 1], isValid |-> TRUE]
             ELSE [isValid |-> FALSE]


(***************************************************************************)
(* The string tests of the link categorizer.                               *)
(***************************************************************************)
\* link.startsWith(`${wikiServer}/wiki/spaces/${spaceName}/`)
StartsWithSpacePrefix(link, wikiServer, spaceName) ==
    /\ link.ws = 0
    /\ link.scheme = wikiServer.scheme
    /\ link.host = wikiServer.host
    /\ link.port = wikiServer.port
    /\ Len(link.path) >= 4
    /\ link.path[1] = "wiki"
    /\ link.path[2] = "spaces"
    /\ link.path[3] = spaceName

\* link.includes('/wiki/spaces/')
IncludesWikiSpaces(link) ==
    \E i \in 1..(Len(link.path) - 2) : link.path[i] = "wiki" /\ link.path[i + 1] = "spaces"

\* link.startsWith('http')
StartsWithHttp(link) == link.ws = 0 /\ link.scheme \in {"http", "https"}

\* the elements of an array
Range(seq) == {seq[i] : i \in 1..Len(seq)}

\* [...new Set(seq)]: the first occurrence of each element, in order
Dedup(seq) ==
    LET keep == {i \in 1..Len(seq) : \A j \in 1..(i - 1) : seq[j] # seq[i]}
    IN  [k \in 1..Cardinality(keep) |->
            seq[CHOOSE i \in keep : Cardinality({j \in keep : j <= i}) = k]]

\* Array.prototype.slice(0, n)
Slice(seq, n) == SubSeq(seq, 1, IF Len(seq) < n THEN Len(seq) ELSE n)

(***************************************************************************)
(* The webs the page fetcher can see.  url.href of a fetched address: the  *)
(* browser fetches, and resolves links against, the parsed URL.            *)
(***************************************************************************)
Href(s) ==
    LET o == Origin(s)
    IN  Str(0, o.scheme, o.host, o.port, Tail(PathParts(s)))

Wiki(path) == Str(0, "https", "h1", "", path)

Home    == Wiki(<<"wiki", "spaces", "TEAM", "Home">>)
Guide   == Wiki(<<"wiki", "spaces", "TEAM", "Guide">>)
OtherX  == Wiki(<<"wiki", "spaces", "OTHER", "X">>)
\* a page of space TEAM addressed outside the /wiki/spaces/TEAM/ prefix
AltHome == Wiki(<<"x", "wiki", "spaces", "TEAM", "Alt">>)
\* a page of space TEAM that only Guide links to
Deep    == Wiki(<<"wiki", "spaces", "TEAM", "Deep">>)
\* the same page as Home, as a user may type it
RawHome == Str(1, "HTTPS", "H1", "443", <<"wiki", "spaces", "TEAM", "Home">>)
\* a wiki address without a spaces segment
NoSpace == Wiki(<<"wiki", "Home">>)
ExtA    == Str(0, "https", "ext", "", <<"a">>)
\* a string of blanks only
Blanks  == Str(1, "", "", "", <<>>)

ManyOther(n) == [i \in 1..n |-> Wiki(<<"wiki", "spaces", "OTHER", ToString(i)>>)]
ManyExt(n)   == [i \in 1..n |-> Str(0, "https", "ext", "", <<ToString(i)>>)]

Worlds == 1..7

\* the links of the page at address u (an href) in web w, in document order;
\* the pages of web 6 have no links
Links(w, u) ==
    CASE w = 1 /\ u = Home    -> <<Guide, OtherX, ExtA>>
      [] w = 2 /\ u = Home    -> <<Home, Guide, AltHome, OtherX>>
      [] w = 2 /\ u = Guide   -> <<Guide, Home, ExtA, NoSpace, ExtA, Deep>>
      [] w = 2 /\ u = AltHome -> <<Guide>>
      [] w = 2 /\ u = OtherX  -> <<Guide, ExtA>>
      [] w = 4 /\ u = Home    -> <<Guide>>
      [] w = 4 /\ u = Guide   -> <<Home, ExtA>>
      [] w = 5 /\ u = Home    -> <<Home, Guide>>
      [] w = 5 /\ u = Guide   -> <<Guide, Home>>
      [] w = 7 /\ u = Home    -> <<Home>>
      [] w = 3 /\ u = Home    -> ManyOther(OtherSpaceLimit + 1) \o ManyExt(ExternalLimit + 1)
      [] OTHER                -> <<>>

\* the URLs a user may have typed into the resource inputs, in order, when the
\* behaviour starts
ResourceLists(w) ==
    CASE w = 1 -> { <<Home>>, <<Home, Guide>>, <<EmptyStr>>, <<Blanks, EmptyStr>> }
      [] w = 2 -> { <<AltHome, OtherX>>, <<OtherX, Home, Guide>> }
      [] w = 3 -> { <<Home>> }
      [] w = 4 -> { <<Home, NoSpace>>, <<EmptyStr, RawHome>> }
      [] w = 5 -> { <<Home>>, <<NoSpace, Guide>> }
      [] w = 6 -> { <<Home>> }
      [] w = 7 -> { <<Home>> }

\* the URLs a user types into a resource input later on
EditUrls(w) ==
    CASE w = 1 -> { EmptyStr, Home, OtherX }
      [] w = 5 -> { EmptyStr, Guide }
      [] OTHER -> { EmptyStr, Guide }

(***************************************************************************)
(* The resource list.                                                      *)
(***************************************************************************)
\* the list after the user made one resource per URL of urls and typed them in
Configured(urls) == [k \in 1..Len(urls) |-> [obj |-> k, id |-> k, url |-> urls[k]]]

\* the URLs of a list of resources
UrlsOf(res) == [k \in 1..Len(res) |-> res[k].url]

\* addResource, lines 248-252: this.resources.push({ id, url: '' }), where
\* id = Date.now() = now and obj names the new object
addResource(res, obj, now) == Append(res, [obj |-> obj, id |-> now, url |-> EmptyStr])

\* this.resources.find(r => r.id === id): the index of the first resource with
\* this id, 0 when there is none
FindResource(res, id) ==
    IF \E k \in 1..Len(res) : res[k].id = id
    THEN CHOOSE k \in 1..Len(res) : res[k].id = id /\ \A j \in 1..(k - 1) : res[j].id # id
    ELSE 0

\* updateResource, lines 262-267: the first resource with this id gets the url
updateResource(res, id, url) ==
    LET k == FindResource(res, id)
    IN  IF k = 0 THEN res ELSE [res EXCEPT ![k].url = url]

\* removeResource, line 255: this.resources.filter(r => r.id !== id)
removeResource(res, id) == SelectSeq(res, LAMBDA x : x.id # id)

(***************************************************************************)
(* The context document: a string built by appending blocks.               *)
(***************************************************************************)
NoServer == [scheme |-> "", host |-> "", port |-> ""]

Block(k, url, server, space, n) ==
    [k |-> k, url |-> url, server |-> server, space |-> space, n |-> n]

\* "=== CORPORATE DOCUMENTATION CONTEXT ===", Generated: t, Total Resources: n
HeaderBlock(t, n)       == Block("header", EmptyStr, NoServer, "", n) @@ [t |-> t]
\* "WIKI SPACE: <space>", "Server: <server>"
SpaceBlock(server, space) == Block("space", EmptyStr, server, space, 0) @@ [t |-> 0]
\* "--- PAGE: <url> ---", "--- LINKED PAGE (Other Space): <url> ---",
\* "--- EXTERNAL LINKED PAGE: <url> ---", each followed by the page's text
PageBlock(phase, url) ==
    Block(CASE phase = 1 -> "page" [] phase = 2 -> "linked" [] OTHER -> "external",
          url, NoServer, "", 0) @@ [t |-> 0]
\* "ERROR processing <url>: <message>"
ErrorBlock(url)         == Block("error", url, NoServer, "", 0) @@ [t |-> 0]
\* "Total pages processed: <n>"
SummaryBlock(n)         == Block("summary", EmptyStr, NoServer, "", n) @@ [t |-> 0]

(***************************************************************************)
(* One invocation of collectContext (a "run") and the part of it that runs *)
(* without suspension.  st = [r |-> the run's own state, v |-> visitedUrls,*)
(* p |-> processedSpaces]; each operator of the chain takes the state as   *)
(* arg and binds its value to st.                                          *)
(***************************************************************************)
\* (the filter of line 215 left out)
ValidResources_NoFilter(res) == res

\* app.resources.filter(r => r.url.trim() !== '')
ValidResources(res) == SelectSeq(res, LAMBDA x : Trim(x.url) # EmptyStr)

\* (.slice(0, 20) left out)
Phase2Slice_NoLimit(links) == links

\* Array.from(otherSpaceLinks).slice(0, 20)
Phase2Slice(links) == Slice(links, OtherSpaceLimit)

\* (.slice(0, 10) left out)
Phase3Slice_NoLimit(links) == links

\* Array.from(externalLinks).slice(0, 10)
Phase3Slice(links) == Slice(links, ExternalLimit)

\* the state of a run as collectContext starts its seed loop.  refs are the
\* objects of validResources; valid[k] is the URL the loop read from object k at
\* turn k, and for a turn to come the URL the object has now
NewRun(valid, t, pre) ==
    [ status |-> "running", pc |-> "sync", valid |-> UrlsOf(valid),
      refs |-> [k \in 1..Len(valid) |-> valid[k].obj], si |-> 1, phase |-> 0,
      wikiServer |-> NoServer, spaceName |-> "",
      pagesToVisit |-> <<>>, spacePages |-> {}, otherSpaceLinks |-> <<>>,
      externalLinks |-> <<>>, arr |-> <<>>, idx |-> 0, cur |-> EmptyStr,
      contextContent |-> <<>>, fullContext |-> <<HeaderBlock(t, Len(valid))>>,
      log |-> <<>>, hist |-> <<>>, pre |-> pre,
      queued |-> <<>>, skips |-> <<>> ]

\* a run whose collectContext threw 'Please add at least one valid Wiki URL'
FailedRun(t, pre) ==
    [NewRun(<<>>, t, pre) EXCEPT !.status = "failed", !.pc = "end", !.fullContext = <<>>]

\* this.visitedUrls.add(url); await this.fetchPageContent(url): the fetch starts
StartFetch(arg, url) ==
    LET Bound[st \in {arg}] ==
            [st EXCEPT !.v = @ \cup {url},
                       !.r.cur = url,
                       !.r.pc = "fetch",
                       !.r.log = Append(@, [url |-> url, phase |-> st.r.phase, si |-> st.r.si,
                                            res |-> "pending"])]
    IN  Bound[arg]

\* what a finished crawl leaves behind, for the record
CrawlRecord(r, skipped) ==
    [si |-> r.si, skipped |-> skipped, wikiServer |-> r.wikiServer, spaceName |-> r.spaceName,
     spacePages |-> r.spacePages, otherSpaceLinks |-> r.otherSpaceLinks,
     externalLinks |-> r.externalLinks, content |-> r.contextContent]

RECURSIVE SeedLoop(_)

\* collectContext line 233 and the loop's next turn: fullContext += content
CrawlReturns(arg, skipped) ==
    LET Bound[st \in {arg}] ==
            SeedLoop([st EXCEPT !.r.fullContext = @ \o (IF skipped THEN <<>> ELSE st.r.contextContent),
                                !.r.hist = Append(@, CrawlRecord(st.r, skipped)),
                                !.r.si = @ + 1])
    IN  Bound[arg]

\* (the error of crawlWikiSpace not caught: collectContext throws)
CrawlThrows_Abort(arg) ==
    LET Bound[st \in {arg}] ==
            [st EXCEPT !.r.status = "failed", !.r.pc = "end"]
    IN  Bound[arg]

\* collectContext's catch: the error block, then the loop's next turn
CrawlThrows(arg) ==
    LET Bound[st \in {arg}] ==
            SeedLoop([st EXCEPT !.r.fullContext = Append(@, ErrorBlock(st.r.valid[st.r.si])),
                                !.r.si = @ + 1])
    IN  Bound[arg]

RECURSIVE ForLoop_BackToPhase2(_)
\* (after Phase 3 the loop goes back to Phase 2 for the other-space links left)
ForLoop_BackToPhase2(arg) ==
    LET Bound[st \in {arg}] ==
            LET r    == st.r
                left == SelectSeq(r.otherSpaceLinks, LAMBDA l : l \notin st.v)
            IN  IF r.idx > Len(r.arr)
                THEN IF r.phase = 2
                     THEN ForLoop_BackToPhase2([st EXCEPT !.r.phase = 3,
                                                          !.r.arr = Phase3Slice(r.externalLinks),
                                                          !.r.idx = 1])
                     ELSE IF left # <<>>
                     THEN ForLoop_BackToPhase2([st EXCEPT !.r.phase = 2,
                                                          !.r.arr = Phase2Slice(left),
                                                          !.r.idx = 1])
                     ELSE CrawlReturns(st, FALSE)
                ELSE LET link == r.arr[r.idx]
                         nx   == [st EXCEPT !.r.idx = @ + 1]
                     IN  IF link \in st.v THEN ForLoop_BackToPhase2(nx) ELSE StartFetch(nx, link)
    IN  Bound[arg]

RECURSIVE ForLoop(_)
\* the for loops of Phase 2 and Phase 3, from the loop head
ForLoop(arg) ==
    LET Bound[st \in {arg}] ==
            LET r == st.r
            IN  IF r.idx > Len(r.arr)
                THEN IF r.phase = 2
                     THEN ForLoop([st EXCEPT !.r.phase = 3,
                                             !.r.arr = Phase3Slice(r.externalLinks),
                                             !.r.idx = 1])
                     ELSE CrawlReturns(st, FALSE)
                ELSE LET link == r.arr[r.idx]
                         nx   == [st EXCEPT !.r.idx = @ + 1]
                     IN  IF link \in st.v THEN ForLoop(nx) ELSE StartFetch(nx, link)
    IN  Bound[arg]

\* (a visited address at the front of the queue is tested before the shift and
\* never removed: the loop spins on it)
Phase1Loop_NoShift(arg) ==
    LET Bound[st \in {arg}] ==
            LET r == st.r
            IN  IF r.pagesToVisit = <<>>
                THEN ForLoop([st EXCEPT !.r.phase = 2,
                                        !.r.arr = Phase2Slice(r.otherSpaceLinks),
                                        !.r.idx = 1])
                ELSE LET currentUrl == Head(r.pagesToVisit)
                         nx         == [st EXCEPT !.r.pagesToVisit = Tail(@)]
                     IN  IF currentUrl \in st.v THEN st ELSE StartFetch(nx, currentUrl)
    IN  Bound[arg]

RECURSIVE Phase1Loop(_)
\* the while loop of Phase 1, from the loop head
Phase1Loop(arg) ==
    LET Bound[st \in {arg}] ==
            LET r == st.r
            IN  IF r.pagesToVisit = <<>>
                THEN ForLoop([st EXCEPT !.r.phase = 2,
                                        !.r.arr = Phase2Slice(r.otherSpaceLinks),
                                        !.r.idx = 1])
                ELSE LET currentUrl == Head(r.pagesToVisit)
                         nx         == [st EXCEPT !.r.pagesToVisit = Tail(@)]
                         skip       == [url |-> currentUrl, seed |-> r.valid[r.si]]
                     IN  IF currentUrl \in st.v
                         THEN Phase1Loop([nx EXCEPT !.r.skips = Append(@, skip)])
                         ELSE StartFetch(nx, currentUrl)
    IN  Bound[arg]

\* (a rejected seed marked visited before the throw)
crawlWikiSpace_MarksRejected(arg) ==
    LET Bound[st \in {arg}] ==
            LET r           == st.r
                initialUrl  == r.valid[r.si]
                parseResult == parseWikiUrl(initialUrl)
            IN  IF ~parseResult.isValid THEN CrawlThrows([st EXCEPT !.v = @ \cup {initialUrl}])
                ELSE LET spaceKey == <<parseResult.wikiServer, parseResult.spaceName>>
                     IN  IF spaceKey \in st.p
                         THEN CrawlReturns([st EXCEPT !.r.wikiServer = parseResult.wikiServer,
                                                      !.r.spaceName = parseResult.spaceName,
                                                      !.r.phase = 0], TRUE)
                         ELSE Phase1Loop(
                                [st EXCEPT !.p = @ \cup {spaceKey},
                                           !.r.wikiServer = parseResult.wikiServer,
                                           !.r.spaceName = parseResult.spaceName,
                                           !.r.phase = 1,
                                           !.r.contextContent =
                                               <<SpaceBlock(parseResult.wikiServer, parseResult.spaceName)>>,
                                           !.r.pagesToVisit = <<initialUrl>>,
                                           !.r.queued = <<initialUrl>>,
                                           !.r.spacePages = {initialUrl},
                                           !.r.externalLinks = <<>>,
                                           !.r.otherSpaceLinks = <<>>,
                                           !.r.arr = <<>>,
                                           !.r.idx = 0])
    IN  Bound[arg]

\* crawlWikiSpace up to its first fetch
crawlWikiSpace(arg) ==
    LET Bound[st \in {arg}] ==
            LET r           == st.r
                initialUrl  == r.valid[r.si]
                parseResult == parseWikiUrl(initialUrl)
            IN  IF ~parseResult.isValid THEN CrawlThrows(st)
                ELSE LET spaceKey == <<parseResult.wikiServer, parseResult.spaceName>>
                     IN  IF spaceKey \in st.p
                         THEN CrawlReturns([st EXCEPT !.r.wikiServer = parseResult.wikiServer,
                                                      !.r.spaceName = parseResult.spaceName,
                                                      !.r.phase = 0], TRUE)
                         ELSE Phase1Loop(
                                [st EXCEPT !.p = @ \cup {spaceKey},
                                           !.r.wikiServer = parseResult.wikiServer,
                                           !.r.spaceName = parseResult.spaceName,
                                           !.r.phase = 1,
                                           !.r.contextContent =
                                               <<SpaceBlock(parseResult.wikiServer, parseResult.spaceName)>>,
                                           !.r.pagesToVisit = <<initialUrl>>,
                                           !.r.queued = <<initialUrl>>,
                                           !.r.spacePages = {initialUrl},
                                           !.r.externalLinks = <<>>,
                                           !.r.otherSpaceLinks = <<>>,
                                           !.r.arr = <<>>,
                                           !.r.idx = 0])
    IN  Bound[arg]

\* the for loop of collectContext, from the loop head, and its return
SeedLoop(arg) ==
    LET Bound[st \in {arg}] ==
            LET r == st.r
            IN  IF r.si > Len(r.valid)
                THEN [st EXCEPT !.r.fullContext = Append(@, SummaryBlock(Cardinality(st.v))),
                                !.r.status = "done",
                                !.r.pc = "end"]
                ELSE crawlWikiSpace(st)
    IN  Bound[arg]

\* (visitedUrls.clear() and processedSpaces.clear() left out)
collectContext_NoReset(res, t, pre, v, p) ==
    LET valid == ValidResources(res)
    IN  IF valid = <<>>
        THEN [r |-> FailedRun(t, pre), v |-> v, p |-> p]
        ELSE SeedLoop([r |-> NewRun(valid, t, pre), v |-> v, p |-> p])

\* collectContext up to its first fetch, from the sets v and p it finds: the
\* filter, the throw, the reset of both sets, the header, the seed loop
collectContext(res, t, pre, v, p) ==
    LET valid == ValidResources(res)
    IN  IF valid = <<>>
        THEN [r |-> FailedRun(t, pre), v |-> v, p |-> p]
        ELSE SeedLoop([r |-> NewRun(valid, t, pre), v |-> {}, p |-> {}])


(***************************************************************************)
(* The page fetcher and the link categorizer.                              *)
(***************************************************************************)
Outcomes == {"ok", "empty", "fail"}

\* fetchPageContent(url): res = "ok" is a page with text, "empty" a page whose
\* text trims to '', "fail" a network or HTTP error (the catch branch)
fetchPageContent(w, url, res) ==
    [ text    |-> IF res = "ok" THEN "text" ELSE "",
      links   |-> IF res = "fail" THEN <<>> ELSE Dedup(Links(w, Href(url))),
      success |-> res # "fail" ]

\* (the test of line 145 left out)
HasText_IgnoreSuccess(page) == TRUE

\* success && text
HasText(page) == page.success /\ page.text # ""

\* (the else-if branch of lines 158-165 left out)
LinkCategory_NoOtherSpace(link, wikiServer, spaceName) ==
    IF StartsWithSpacePrefix(link, wikiServer, spaceName) THEN "same"
    ELSE IF StartsWithHttp(link) THEN "external"
    ELSE "none"

\* the if / else-if chain of lines 152-169: the bucket a link goes to
LinkCategory(link, wikiServer, spaceName) ==
    IF StartsWithSpacePrefix(link, wikiServer, spaceName) THEN "same"
    ELSE IF IncludesWikiSpaces(link)
    THEN LET linkParse == parseWikiUrl(link)
         IN  IF linkParse.isValid /\ linkParse.wikiServer = wikiServer
             THEN "other" ELSE "external"
    ELSE IF StartsWithHttp(link) THEN "external"
    ELSE "none"

\* (the test !this.visitedUrls.has(link) of line 154 left out)
Categorize_NoVisitedCheck(links, r, v) ==
    LET cat(l)  == LinkCategory(l, r.wikiServer, r.spaceName)
        same    == SelectSeq(links, LAMBDA l : cat(l) = "same" /\ l \notin r.spacePages)
        other   == SelectSeq(links, LAMBDA l : cat(l) = "other"
                                               /\ l \notin Range(r.otherSpaceLinks))
        ext     == SelectSeq(links, LAMBDA l : cat(l) = "external"
                                               /\ l \notin Range(r.externalLinks))
    IN  [r EXCEPT !.spacePages = @ \cup Range(same),
                  !.pagesToVisit = @ \o same,
                  !.queued = @ \o same,
                  !.otherSpaceLinks = @ \o other,
                  !.externalLinks = @ \o ext]

\* links.forEach(...) of Phase 1, on the run r with VisitedSet v.  The links of
\* one page are distinct (line 82), so each bucket receives, in document
\* order, the links of its category that it does not hold yet.
Categorize(links, r, v) ==
    LET cat(l)  == LinkCategory(l, r.wikiServer, r.spaceName)
        same    == SelectSeq(links, LAMBDA l : cat(l) = "same"
                                               /\ l \notin r.spacePages /\ l \notin v)
        other   == SelectSeq(links, LAMBDA l : cat(l) = "other"
                                               /\ l \notin Range(r.otherSpaceLinks))
        ext     == SelectSeq(links, LAMBDA l : cat(l) = "external"
                                               /\ l \notin Range(r.externalLinks))
    IN  [r EXCEPT !.spacePages = @ \cup Range(same),
                  !.pagesToVisit = @ \o same,
                  !.queued = @ \o same,
                  !.otherSpaceLinks = @ \o other,
                  !.externalLinks = @ \o ext]

\* (the links of the pages of Phase 2 and Phase 3 categorized too)
AfterFetch_Deep(r, page, res, v) ==
    LET logged == [r EXCEPT !.log[Len(r.log)].res = res, !.pc = "pause"]
        added  == IF HasText(page)
                  THEN [logged EXCEPT !.contextContent = Append(@, PageBlock(r.phase, r.cur))]
                  ELSE logged
    IN  Categorize(page.links, added, v)

\* the run after its fetch returned page: lines 145-170, 184-187, 201-204
AfterFetch(r, page, res, v) ==
    LET logged == [r EXCEPT !.log[Len(r.log)].res = res, !.pc = "pause"]
        added  == IF HasText(page)
                  THEN [logged EXCEPT !.contextContent = Append(@, PageBlock(r.phase, r.cur))]
                  ELSE logged
    IN  IF r.phase = 1 THEN Categorize(page.links, added, v) ELSE added

(***************************************************************************)
(* The actions: one per task of the event loop.                            *)
(***************************************************************************)
\* fetches so far that did not succeed with non-empty text
CountFails(log) == Cardinality({k \in 1..Len(log) : log[k].res \in {"empty", "fail"}})

RECURSIVE SumFails(_)
SumFails(rs) == IF rs = <<>> THEN 0 ELSE CountFails(Head(rs).log) + SumFails(Tail(rs))

\* invocations explored per web.  Runs that overlap share the VisitedSet and
\* split the fetches between them in every way, so the number of runs is
\* MaxRuns in web 6 only, whose pages have no links: at most two in webs 1, 2,
\* 4, 5 and 7, and one in web 3, whose 31 fetches two runs would split in 2^31
\* ways.
RunBudget(w) ==
    LET cap == CASE w = 3 -> 1 [] w = 6 -> MaxRuns [] OTHER -> 2
    IN  IF MaxRuns < cap THEN MaxRuns ELSE cap

\* changes of the resource list explored per web: every change can come
\* between any two tasks of the runs, so MaxEdits of them in web 7 only, whose
\* one page links to itself: at most one in webs 1 and 5, and none in webs 2,
\* 3, 4 and 6
EditBudget(w) ==
    LET cap == CASE w = 7 -> MaxEdits [] w \in {1, 5} -> 1 [] OTHER -> 0
    IN  IF MaxEdits < cap THEN MaxEdits ELSE cap

Finished == {j \in 1..Len(runs) : runs[j].pc = "end"}

\* sendQuery, line 334 on: this.contextData = await this.collectContext()
Deliver(r) == IF r.status = "done" THEN <<r.fullContext>> ELSE contextData

\* the user clicks "send": sendQuery up to the first fetch of collectContext
SendQuery(query) ==
    /\ Len(runs) < RunBudget(world)
    /\ IF query = ""
       THEN UNCHANGED vars
       ELSE \E st \in {collectContext(resources, Len(runs) + 1, Finished,
                                       visitedUrls, processedSpaces)} :
                /\ runs' = Append(runs, st.r)
                /\ visitedUrls' = st.v
                /\ processedSpaces' = st.p
                /\ contextData' = Deliver(st.r)
                /\ UNCHANGED <<resources, clock, made, edits, world, purl, pres>>

\* the fetch of run i completes with outcome res; the pause timer is set
FetchDone(i, res) ==
    /\ runs[i].pc = "fetch"
    /\ res # "ok" => SumFails(runs) < MaxFails
    /\ \E r \in {AfterFetch(runs[i], fetchPageContent(world, runs[i].cur, res), res,
                             visitedUrls)} :
           runs' = [runs EXCEPT ![i] = r]
    /\ UNCHANGED <<resources, clock, made, edits, world, visitedUrls, processedSpaces,
                   contextData, purl, pres>>

\* the pause timer of run i fires: the crawl goes on to its next fetch or to the end
TimerFired(i) ==
    /\ runs[i].pc = "pause"
    /\ \E st \in {LET st0 == [r |-> runs[i], v |-> visitedUrls, p |-> processedSpaces]
                   IN  IF runs[i].phase = 1 THEN Phase1Loop(st0) ELSE ForLoop(st0)} :
           /\ runs' = [runs EXCEPT ![i] = st.r]
           /\ visitedUrls' = st.v
           /\ processedSpaces' = st.p
           /\ contextData' = Deliver(st.r)
    /\ UNCHANGED <<resources, clock, made, edits, world, purl, pres>>

\* the run r once the object obj has the URL url: the turns of the seed loop
\* still to come (line 229: resource.url is read at each turn) read the new URL
SeedsAfterUpdate(r, obj, url) ==
    [r EXCEPT !.valid = [k \in 1..Len(r.valid) |->
                            IF k > r.si /\ r.refs[k] = obj THEN url ELSE r.valid[k]]]

\* the user changes the input of a resource with this id to url: onchange
\* calls updateResource(id, url).  A call that finds no resource, or finds the
\* url it brings, changes nothing
UpdateResource(id, url) ==
    /\ edits < EditBudget(world)
    /\ updateResource(resources, id, url) # resources
    /\ edits' = edits + 1
    /\ resources' = updateResource(resources, id, url)
    /\ LET k == FindResource(resources, id)
       IN  runs' = IF k = 0 THEN runs
                   ELSE [i \in 1..Len(runs) |->
                            SeedsAfterUpdate(runs[i], resources[k].obj, url)]
    /\ UNCHANGED <<clock, made, world, visitedUrls, processedSpaces, contextData, purl, pres>>

\* the user clicks "add": addResource(), in the millisecond of the last
\* Date.now() or a later one
AddResource ==
    /\ edits < EditBudget(world)
    /\ edits' = edits + 1
    /\ \E now \in {clock, clock + 1} :
           /\ resources' = addResource(resources, made + 1, now)
           /\ clock' = now
    /\ made' = made + 1
    /\ UNCHANGED <<world, visitedUrls, processedSpaces, contextData, runs, purl, pres>>

\* removeResource(id), lines 254-260: the resources with this id leave the list;
\* a list left empty gets a new blank resource.  A call that finds no resource
\* changes nothing
RemoveResource(id) ==
    /\ edits < EditBudget(world)
    /\ removeResource(resources, id) # resources
    /\ edits' = edits + 1
    /\ LET left == removeResource(resources, id)
       IN  IF left = <<>>
           THEN /\ \E now \in {clock, clock + 1} :
                      /\ resources' = addResource(left, made + 1, now)
                      /\ clock' = now
                /\ made' = made + 1
           ELSE /\ resources' = left
                /\ UNCHANGED <<clock, made>>
    /\ UNCHANGED <<world, visitedUrls, processedSpaces, contextData, runs, purl, pres>>

Init ==
    /\ world \in Worlds
    /\ \E urls \in ResourceLists(world) : resources = Configured(urls)
    /\ clock = Len(resources)
    /\ made = Len(resources)
    /\ edits = 0
    /\ visitedUrls = {}
    /\ processedSpaces = {}
    /\ contextData = <<>>
    /\ runs = <<>>
    /\ purl = EmptyStr
    /\ pres = <<>>

Next ==
    \/ \E query \in {"", "q"} : SendQuery(query)
    \/ \E i \in 1..Len(runs), res \in Outcomes : FetchDone(i, res)
    \/ \E i \in 1..Len(runs) : TimerFired(i)
    \/ \E id \in 1..clock, url \in EditUrls(world) : UpdateResource(id, url)
    \/ AddResource
    \/ \E id \in 1..clock : RemoveResource(id)

Spec == Init /\ [][Next]_vars


(***************************************************************************)
(* Vocabulary of the properties of the crawl.                              *)
(***************************************************************************)
RunIds == 1..Len(runs)

\* the fetches run r made in phase ph of the crawl of its seed number si
PhaseFetches(r, si, ph) == {k \in 1..Len(r.log) : r.log[k].si = si /\ r.log[k].phase = ph}

\* the addresses run r fetched in phase ph of the crawl of its seed number si, in order
PhaseUrls(r, si, ph) ==
    LET sel == SelectSeq(r.log, LAMBDA e : e.si = si /\ e.phase = ph)
    IN  [k \in 1..Len(sel) |-> sel[k].url]

\* the runs whose fetch is in flight
InFlight == {i \in RunIds : runs[i].pc = "fetch"}

\* run i overlaps no other run: every earlier run had returned when it started,
\* and it had returned when every later run started
Alone(i) ==
    /\ \A j \in 1..(i - 1) : j \in runs[i].pre
    /\ \A j \in (i + 1)..Len(runs) : i \in runs[j].pre

\* the (server, space) a seed classifies to
SpaceKeyOf(url) == <<parseWikiUrl(url).wikiServer, parseWikiUrl(url).spaceName>>

\* seed number k of run r classifies to the space of an earlier valid seed of r
RepeatsEarlierSpace(r, k) ==
    /\ parseWikiUrl(r.valid[k]).isValid
    /\ \E e \in 1..(k - 1) :
          parseWikiUrl(r.valid[e]).isValid /\ SpaceKeyOf(r.valid[e]) = SpaceKeyOf(r.valid[k])

\* the kinds of the blocks of a document, in order
Kinds(doc) == [k \in 1..Len(doc) |-> doc[k].k]

\* the blocks of kind kind of a document
BlocksOf(doc, kind) == {k \in 1..Len(doc) : doc[k].k = kind}

\* the blocks of a document that are page sections
PageSections(doc) == {k \in 1..Len(doc) : doc[k].k \in {"page", "linked", "external"}}

Min(a, b) == IF a < b THEN a ELSE b

(***************************************************************************)
(* C1-C8: properties of the crawl, checked under Spec.                     *)
(***************************************************************************)
\* C1: within one run, fetchPageContent(u) is invoked at most once for every URL u.
C1_FetchedAtMostOncePerRun ==
    \A i \in RunIds : \A k, m \in 1..Len(runs[i].log) :
        runs[i].log[k].url = runs[i].log[m].url => k = m

\* C2: in one run, the crawl of a seed that classifies to the space of an earlier
\* valid seed returns '' and issues no fetch.
C2_RepeatedSpaceNotCrawled ==
    \A i \in RunIds :
        LET r == runs[i]
        IN  \A k \in 1..Len(r.valid) :
                RepeatsEarlierSpace(r, k) =>
                    /\ \A ph \in 1..3 : PhaseFetches(r, k, ph) = {}
                    /\ \A h \in 1..Len(r.hist) : r.hist[h].si = k => r.hist[h].skipped

\* C3 as stated: for every crawl, Phase 2 fetches min(20, |otherSpaceLinks|) pages
\* and Phase 3 fetches min(10, |externalLinks|) pages.
C3_LimitsReachedExactly ==
    \A i \in RunIds :
        \A h \in 1..Len(runs[i].hist) :
            LET c == runs[i].hist[h]
            IN  ~c.skipped =>
                  /\ Cardinality(PhaseFetches(runs[i], c.si, 2))
                        = Min(20, Len(c.otherSpaceLinks))
                  /\ Cardinality(PhaseFetches(runs[i], c.si, 3))
                        = Min(10, Len(c.externalLinks))

\* Phase ph of the crawl of seed si of run i, which iterates the first `limit`
\* entries of links: it fetched entries among those only, each at most once,
\* and an entry it did not fetch was fetched elsewhere (it was in VisitedSet)
WithinLimit(i, si, ph, links, limit) ==
    LET r     == runs[i]
        done  == PhaseFetches(r, si, ph)
        first == Range(SubSeq(links, 1, Min(limit, Len(links))))
    IN  /\ Cardinality(done) <= Min(limit, Len(links))
        /\ \A k \in done : r.log[k].url \in first
        /\ \A k, m \in done : r.log[k].url = r.log[m].url => k = m
        /\ \A u \in first :
              \/ \E k \in done : r.log[k].url = u
              \/ \E j \in RunIds : \E k \in 1..Len(runs[j].log) :
                    runs[j].log[k].url = u /\ (j # i \/ k \notin done)

\* C3 amended: for every crawl, Phase 2 fetches those of the first 20 entries of
\* otherSpaceLinks that are not in VisitedSet when the loop reaches them, once
\* each, and nothing else, so at most min(20, |otherSpaceLinks|) pages; Phase 3
\* does the same with the first 10 entries of externalLinks.
C3_FetchesWithinLimits ==
    \A i \in RunIds :
        \A h \in 1..Len(runs[i].hist) :
            LET c == runs[i].hist[h]
            IN  ~c.skipped =>
                  /\ WithinLimit(i, c.si, 2, c.otherSpaceLinks, 20)
                  /\ WithinLimit(i, c.si, 3, c.externalLinks, 10)

\* a finished crawl that found more links than both limits and fetched as many
\* pages as the limits allow
C3_Witness ==
    \E i \in RunIds : \E h \in 1..Len(runs[i].hist) :
        LET c == runs[i].hist[h]
        IN  /\ Len(c.otherSpaceLinks) > 20
            /\ Len(c.externalLinks) > 10
            /\ Cardinality(PhaseFetches(runs[i], c.si, 2)) = 20
            /\ Cardinality(PhaseFetches(runs[i], c.si, 3)) = 10

\* the scenario of C4: the single seed Home in the web where Home links to
\* Guide, to one page of space OTHER and to one external page; collectContext
\* is called once and returns, every fetch having given text
C4_Scenario(i) ==
    /\ world = 1
    /\ runs[i].valid = <<Home>>
    /\ Links(1, Home) = <<Guide, OtherX, ExtA>>
    /\ \A u \in {Guide, OtherX, ExtA} : Links(1, u) = <<>>
    /\ runs[i].status = "done"
    /\ Alone(i)
    /\ \A k \in 1..Len(runs[i].log) : runs[i].log[k].res = "ok"

\* what C4 says of the phases: Phase 1 fetches Home and Guide, Phase 2 the page
\* of space OTHER, Phase 3 the external page
C4_Phases(i) ==
    /\ PhaseUrls(runs[i], 1, 1) = <<Home, Guide>>
    /\ PhaseUrls(runs[i], 1, 2) = <<OtherX>>
    /\ PhaseUrls(runs[i], 1, 3) = <<ExtA>>
    /\ Len(runs[i].log) = 4

\* C4 as stated: in the scenario the phases fetch as described and the document
\* holds exactly 3 page sections and 1 space header.
C4_ThreePageSections ==
    \A i \in RunIds :
        C4_Scenario(i) =>
            /\ C4_Phases(i)
            /\ Cardinality(PageSections(runs[i].fullContext)) = 3
            /\ Cardinality(BlocksOf(runs[i].fullContext, "space")) = 1

\* C4 amended: in the scenario the phases fetch as described and the document
\* holds exactly 4 page sections (Home and Guide of Phase 1, the page of space
\* OTHER, the external page), after 1 space header.
C4_FourPageSections ==
    \A i \in RunIds :
        C4_Scenario(i) =>
            /\ C4_Phases(i)
            /\ Kinds(runs[i].fullContext)
                  = <<"header", "space", "page", "page", "linked", "external", "summary">>
            /\ [k \in 3..6 |-> runs[i].fullContext[k].url]
                  = [k \in 3..6 |-> <<Home, Guide, OtherX, ExtA>>[k - 2]]
            /\ runs[i].fullContext[2].space = "TEAM"
            /\ runs[i].fullContext[7].n = 4

\* the scenario has run to its end
C4_Witness == \E i \in RunIds : C4_Scenario(i) /\ Len(runs[i].log) = 4

\* seed number k of run r is rejected by the URL classifier
BadSeed(r, k) == ~parseWikiUrl(r.valid[k]).isValid

\* the number seed k of a run has once the rejected seeds before it are left out
Renumber(valid, k) ==
    Cardinality({e \in 1..(k - 1) : e <= Len(valid) /\ parseWikiUrl(valid[e]).isValid}) + 1

\* the run r as it would be had its rejected seeds not been configured: the same
\* crawl state, the seeds renumbered, no error block, the header's count less
WithoutBadSeeds(r) ==
    LET good == SelectSeq(r.valid, LAMBDA u : parseWikiUrl(u).isValid)
        kept == SelectSeq([k \in 1..Len(r.valid) |-> k],
                          LAMBDA k : parseWikiUrl(r.valid[k]).isValid)
    IN  [r EXCEPT
           !.valid = good,
           !.refs = [k \in 1..Len(kept) |-> r.refs[kept[k]]],
           !.si = Renumber(r.valid, r.si),
           !.fullContext =
               IF r.fullContext = <<>> THEN <<>>
               ELSE <<[r.fullContext[1] EXCEPT !.n = Len(good)]>>
                    \o SelectSeq(Tail(r.fullContext), LAMBDA b : b.k # "error"),
           !.log = [k \in 1..Len(r.log) |->
                       [r.log[k] EXCEPT !.si = Renumber(r.valid, r.log[k].si)]],
           !.hist = [k \in 1..Len(r.hist) |->
                       [r.hist[k] EXCEPT !.si = Renumber(r.valid, r.hist[k].si)]]]

\* what the seed number k of run r, once processed, added to the document: an
\* error block if it was rejected, else what its crawl returned
Contribution(r, k) ==
    IF BadSeed(r, k) THEN <<ErrorBlock(r.valid[k])>>
    ELSE LET h == CHOOSE h \in 1..Len(r.hist) : r.hist[h].si = k
         IN  IF r.hist[h].skipped THEN <<>> ELSE r.hist[h].content

RECURSIVE Contributions(_, _)
\* the contributions of the seeds 1..k of run r, in order
Contributions(r, k) ==
    IF k = 0 THEN <<>> ELSE Contributions(r, k - 1) \o Contribution(r, k)

\* the document of a run so far is the header, then one contribution per seed
\* processed so far, in seed order: one error block for a rejected seed
C5_ErrorBlockInPlace ==
    \A i \in RunIds :
        LET r == runs[i]
        IN  r.status # "failed" =>
              /\ \A k \in 1..(r.si - 1) :
                    BadSeed(r, k) \/ \E h \in 1..Len(r.hist) : r.hist[h].si = k
              /\ r.status = "running" => r.si <= Len(r.valid) /\ ~BadSeed(r, r.si)
              /\ r.status = "done" => r.si = Len(r.valid) + 1
              /\ SubSeq(r.fullContext, 2, Len(r.fullContext) - (IF r.status = "done" THEN 1 ELSE 0))
                    = Contributions(r, r.si - 1)

\* every step of a run with a rejected seed is the step the run without its
\* rejected seeds takes from the same VisitedSet and ProcessedSpaces, and leaves
\* these two the same; a change of the resource list is no step of a run
C5_StepAsWithoutBadSeeds ==
    \A i \in 1..Len(runs') :
        IF edits' # edits \/ \A k \in 1..Len(runs'[i].valid) : ~BadSeed(runs'[i], k) THEN TRUE
        ELSE IF i > Len(runs)
        THEN LET good == SelectSeq(resources,
                            LAMBDA x : Trim(x.url) = EmptyStr \/ parseWikiUrl(x.url).isValid)
                 st   == collectContext(good, i, Finished, visitedUrls, processedSpaces)
             IN  (runs'[i].status # "failed" /\ ValidResources(good) # <<>>) =>
                    /\ st.r = WithoutBadSeeds(runs'[i])
                    /\ st.v = visitedUrls'
                    /\ st.p = processedSpaces'
        ELSE IF runs'[i] = runs[i] THEN TRUE
        ELSE IF runs[i].pc = "pause"
        THEN LET st0 == [r |-> WithoutBadSeeds(runs[i]), v |-> visitedUrls,
                         p |-> processedSpaces]
                 st  == IF runs[i].phase = 1 THEN Phase1Loop(st0) ELSE ForLoop(st0)
             IN  /\ st.r = WithoutBadSeeds(runs'[i])
                 /\ st.v = visitedUrls'
                 /\ st.p = processedSpaces'
        ELSE LET res == runs'[i].log[Len(runs'[i].log)].res
             IN  AfterFetch(WithoutBadSeeds(runs[i]),
                            fetchPageContent(world, runs[i].cur, res), res, visitedUrls)
                    = WithoutBadSeeds(runs'[i])

\* C5: a seed the URL classifier rejects adds one 'ERROR processing <url>' block
\* to the document, in the seed's place, and the run goes on: every later seed
\* is processed, in order, exactly as in a run without the rejected seed.
C5_BadSeedDoesNotAbort == [](C5_ErrorBlockInPlace) /\ [][C5_StepAsWithoutBadSeeds]_vars

\* a run that returned after a rejected seed and then a crawl that fetched pages
C5_Witness ==
    \E i \in RunIds :
        /\ runs[i].status = "done"
        /\ \E k \in 1..Len(runs[i].valid) :
              /\ BadSeed(runs[i], k)
              /\ \E m \in 1..Len(runs[i].log) : runs[i].log[m].si > k
              /\ \E b \in 2..(Len(runs[i].fullContext) - 1) :
                    /\ runs[i].fullContext[b] = ErrorBlock(runs[i].valid[k])
                    /\ runs[i].fullContext[b + 1].k = "space"

\* every configured resource URL is blank
AllBlank == \A k \in 1..Len(resources) : resources[k].url \in {EmptyStr, Blanks}

\* a call of collectContext throws exactly when it finds every URL blank, and
\* a call that did not throw then never throws later
C6_ThrowsAtCall ==
    /\ \A i \in (Len(runs) + 1)..Len(runs') : (runs'[i].status = "failed") <=> AllBlank
    /\ \A i \in 1..Len(runs) : (runs'[i].status = "failed") <=> (runs[i].status = "failed")

\* a call that did not throw is waiting for a fetch or a timer, or has returned
\* a document: header first, summary last
C6_DocumentOtherwise ==
    \A i \in RunIds :
        LET r == runs[i]
        IN  /\ r.status \in {"failed", "running", "done"}
            /\ r.status = "running" => r.pc \in {"fetch", "pause"}
            /\ r.status = "done" =>
                  /\ r.pc = "end"
                  /\ Len(r.fullContext) >= 2
                  /\ r.fullContext[1].k = "header"
                  /\ r.fullContext[Len(r.fullContext)].k = "summary"

\* C6: collectContext throws if and only if no resource has a non-blank URL
\* when it is called; otherwise the run is waiting for a fetch or a timer, or
\* has returned a document (header first, summary last), whatever seeds were
\* invalid and whatever fetches failed.
C6_ThrowsIffAllBlank == [](C6_DocumentOtherwise) /\ [][C6_ThrowsAtCall]_vars

\* a run that returned a document although one of its seeds was invalid and one
\* of its fetches failed
C6_Witness ==
    \E i \in RunIds :
        /\ runs[i].status = "done"
        /\ \E k \in 1..Len(runs[i].valid) : ~parseWikiUrl(runs[i].valid[k]).isValid
        /\ \E k \in 1..Len(runs[i].log) : runs[i].log[k].res = "fail"

\* the page fetcher answered runs i and j alike: the same outcome for every
\* address both fetched
SameAnswers(i, j) ==
    \A k \in 1..Len(runs[i].log), m \in 1..Len(runs[j].log) :
        runs[i].log[k].url = runs[j].log[m].url => runs[i].log[k].res = runs[j].log[m].res

\* C7: two calls of collectContext in succession (the second starts after the
\* first returned, no other call overlaps them), reading the same seeds from a
\* fetcher that answers alike, return documents that differ in the generation
\* timestamp only: the same sections in the same order, the same summary count.
C7_SecondRunSameDocument ==
    \A i, j \in RunIds :
        ( /\ i < j
          /\ runs[i].status = "done" /\ runs[j].status = "done"
          /\ Alone(i) /\ Alone(j)
          /\ runs[i].valid = runs[j].valid
          /\ SameAnswers(i, j) ) =>
            /\ Tail(runs[i].fullContext) = Tail(runs[j].fullContext)
            /\ runs[i].fullContext[1].n = runs[j].fullContext[1].n
            /\ runs[i].log = runs[j].log

\* two calls in succession that each fetched several pages
C7_Witness ==
    \E i, j \in RunIds :
        /\ i < j
        /\ runs[i].status = "done" /\ runs[j].status = "done"
        /\ Alone(i) /\ Alone(j)
        /\ runs[i].valid = runs[j].valid
        /\ SameAnswers(i, j)
        /\ Len(runs[i].log) >= 3
        /\ Cardinality(PageSections(runs[j].fullContext)) >= 3
        /\ runs[i].fullContext[1].t # runs[j].fullContext[1].t

\* C8: at every moment at most one page fetch is in flight.
C8_AtMostOneFetchInFlight == Cardinality(InFlight) <= 1

(***************************************************************************)
(* C11-C19: further properties of the crawl, checked under Spec.           *)
(***************************************************************************)
\* the crawls of run r: the finished ones and the one in progress
Crawls(r) ==
    {[wikiServer |-> r.hist[h].wikiServer, spaceName |-> r.hist[h].spaceName,
      otherSpaceLinks |-> r.hist[h].otherSpaceLinks] :
        h \in {h \in 1..Len(r.hist) : ~r.hist[h].skipped}}
    \cup (IF r.pc # "end" /\ r.phase >= 1
          THEN {[wikiServer |-> r.wikiServer, spaceName |-> r.spaceName,
                 otherSpaceLinks |-> r.otherSpaceLinks]}
          ELSE {})

\* C11: every link in the other-space bucket of a crawl contains '/wiki/spaces/'
\* and classifies as valid, with the server of the crawl and a space other than
\* the crawl's own.
C11_OtherBucketIsOtherSpace ==
    \A i \in RunIds : \A c \in Crawls(runs[i]) :
        \A k \in 1..Len(c.otherSpaceLinks) :
            LET link == c.otherSpaceLinks[k]
            IN  /\ IncludesWikiSpaces(link)
                /\ parseWikiUrl(link).isValid
                /\ parseWikiUrl(link).wikiServer = c.wikiServer
                /\ parseWikiUrl(link).spaceName # c.spaceName

\* the pages one same-space link away from the pages of set, in the space
\* (wikiServer, spaceName) of web w
SameSpaceLinked(w, set, wikiServer, spaceName) ==
    UNION {{l \in Range(Links(w, Href(u))) : StartsWithSpacePrefix(l, wikiServer, spaceName)} :
               u \in set}

RECURSIVE SameSpaceClosure(_, _, _, _)
SameSpaceClosure(w, set, wikiServer, spaceName) ==
    LET more == set \cup SameSpaceLinked(w, set, wikiServer, spaceName)
    IN  IF more = set THEN set ELSE SameSpaceClosure(w, more, wikiServer, spaceName)

\* the pages reachable from seed by a chain of same-space links
ReachableInSpace(w, seed) ==
    SameSpaceClosure(w, {seed}, parseWikiUrl(seed).wikiServer, parseWikiUrl(seed).spaceName)

\* run r returned and every fetch it made succeeded with text
AllFetchesSucceeded(r) ==
    /\ r.status = "done"
    /\ \A k \in 1..Len(r.log) : r.log[k].res = "ok"

\* run r fetched u in Phase 1 of a crawl of the space of seed: the only fetch
\* whose links are categorized
CategorizedIn(r, u, seed) ==
    \E k \in 1..Len(r.log) :
        /\ r.log[k].url = u
        /\ r.log[k].phase = 1
        /\ SpaceKeyOf(r.valid[r.log[k].si]) = SpaceKeyOf(seed)

\* C12: when every fetch of a run succeeded, at its end every page reachable
\* from a valid seed by a chain of same-space links was fetched in Phase 1 of
\* the crawl of that space, where its links are categorized.
C12_SpaceGraphExhausted ==
    \A i \in RunIds :
        LET r == runs[i]
        IN  AllFetchesSucceeded(r) =>
                \A s \in 1..Len(r.valid) :
                    parseWikiUrl(r.valid[s]).isValid =>
                        \A u \in ReachableInSpace(world, r.valid[s]) :
                            CategorizedIn(r, u, r.valid[s])

\* the fetch log of run r is ordered by seed and, within a seed, by phase
FetchesInPhaseOrder(r) ==
    \A k, m \in 1..Len(r.log) :
        k < m => \/ r.log[k].si < r.log[m].si
                 \/ r.log[k].si = r.log[m].si /\ r.log[k].phase <= r.log[m].phase

\* when run r issued a fetch for a seed, the crawl of every earlier valid seed
\* had returned
DoneBeforeNextSeed(r) ==
    \A k \in 1..Len(r.log) :
        \A s \in 1..(r.log[k].si - 1) :
            parseWikiUrl(r.valid[s]).isValid => \E h \in 1..Len(r.hist) : r.hist[h].si = s

\* a fetch in flight or just completed belongs to the phase the crawl is in
FetchOfCurrentPhase(r) ==
    r.pc \in {"fetch", "pause"} =>
        /\ r.log # <<>>
        /\ r.log[Len(r.log)].si = r.si
        /\ r.log[Len(r.log)].phase = r.phase
        /\ r.phase \in 1..3

\* a step moves no run to an earlier seed or, within a seed, to an earlier phase
PhaseNeverGoesBack ==
    \A i \in RunIds :
        \/ runs'[i].si > runs[i].si
        \/ runs'[i].si = runs[i].si /\ runs'[i].phase >= runs[i].phase

\* C13: a crawl goes through Phase 1, Phase 2, Phase 3 and its return in that
\* order and never goes back: every Phase 1 fetch of a crawl precedes its Phase
\* 2 fetches, which precede its Phase 3 fetches, and the crawl of a seed has
\* returned before the crawl of the next seed issues a fetch.
C13_PhasesInOrder ==
    /\ [](\A i \in RunIds : /\ FetchesInPhaseOrder(runs[i])
                            /\ DoneBeforeNextSeed(runs[i])
                            /\ FetchOfCurrentPhase(runs[i]))
    /\ [][PhaseNeverGoesBack]_vars

\* a run returned after a crawl with fetches in all three phases and a fetch
\* for a later seed
C13_Witness ==
    \E i \in RunIds :
        LET r == runs[i]
        IN  /\ r.status = "done"
            /\ \E s \in 1..Len(r.valid) :
                  /\ \A ph \in 1..3 : PhaseFetches(r, s, ph) # {}
                  /\ \E t \in (s + 1)..Len(r.valid) : PhaseFetches(r, t, 1) # {}

(***************************************************************************)
(* C14: termination, checked under SpecFair.  The browser completes every  *)
(* fetch (with a page or an error) and fires every timer, so each run's    *)
(* pending task is eventually taken; nothing obliges the user to click.    *)
(***************************************************************************)
\* the fetch of run i completes, with any outcome
FetchCompletes(i) == i \in RunIds /\ \E res \in Outcomes : FetchDone(i, res)

\* the pause timer of run i fires
PauseEnds(i) == i \in RunIds /\ TimerFired(i)

\* the web of two pages that link to themselves and to each other
InitFair == Init /\ world = 5

SpecFair ==
    /\ InitFair
    /\ [][Next]_vars
    /\ \A i \in 1..MaxRuns : WF_vars(FetchCompletes(i)) /\ WF_vars(PauseEnds(i))

\* a crawl of run i is in Phase 1
Phase1Busy(i) == i \in RunIds /\ runs[i].pc # "end" /\ runs[i].phase = 1

\* the queue of Phase 1 of run i is empty and the crawl has left Phase 1
Phase1Over(i) == i \in RunIds /\ runs[i].pagesToVisit = <<>> /\ (runs[i].pc = "end" \/ runs[i].phase # 1)

\* collectContext of run i has returned or thrown
Returned(i) == i \in RunIds /\ runs[i].pc = "end"

\* C14: every Phase 1 eventually empties its queue and every collectContext
\* invocation eventually returns, in webs with cycles and self-links too.
C14_CrawlTerminates ==
    [](\A i \in 1..MaxRuns : /\ (Phase1Busy(i) => <>Phase1Over(i))
                              /\ (i \in RunIds => <>Returned(i)))

\* a run returned after a Phase 1 that met a self-link and a link back to a
\* page already fetched
C14_Witness ==
    \E i \in RunIds :
        LET r == runs[i]
        IN  /\ r.status = "done"
            /\ \E k, m \in 1..Len(r.log) :
                  /\ k < m
                  /\ r.log[k].phase = 1 /\ r.log[m].phase = 1 /\ r.log[k].si = r.log[m].si
                  /\ r.log[m].res # "fail"
                  /\ r.log[m].url \in Range(Links(world, Href(r.log[m].url)))
                  /\ r.log[k].url \in Range(Links(world, Href(r.log[m].url)))
                  /\ r.log[m].url \in Range(Links(world, Href(r.log[k].url)))

\* the queue and the three link sets of the crawl run r is in
CrawlSets(r) == <<r.pagesToVisit, r.spacePages, r.otherSpaceLinks, r.externalLinks>>

\* a step of run i inside Phase 2 or Phase 3 of one crawl: a fetch of these
\* phases is issued or completes, or its pause ends
ExpansionStep(i) ==
    /\ runs[i].pc # "end"
    /\ runs[i].phase \in {2, 3}
    /\ runs'[i].si = runs[i].si
    /\ runs'[i] # runs[i]

\* C15: a fetch of Phase 2 or Phase 3 leaves the queue, the same-space page
\* set, the other-space set and the external set of the crawl unchanged: the
\* links of a page fetched in these phases are not categorized.
C15_ExpansionChangesNoSet ==
    [][\A i \in RunIds : ExpansionStep(i) => CrawlSets(runs'[i]) = CrawlSets(runs[i])]_vars

\* a page fetched in Phase 2 or 3 came back with a link that Phase 1 would have
\* put in a set of the crawl, and the link is in none
C15_Witness ==
    \E i \in RunIds :
        LET r == runs[i]
        IN  /\ r.pc = "pause"
            /\ r.phase \in {2, 3}
            /\ r.log[Len(r.log)].res = "ok"
            /\ \E l \in Range(fetchPageContent(world, r.cur, "ok").links) :
                  \/ /\ LinkCategory(l, r.wikiServer, r.spaceName) = "other"
                     /\ l \notin Range(r.otherSpaceLinks)
                  \/ /\ LinkCategory(l, r.wikiServer, r.spaceName) = "external"
                     /\ l \notin Range(r.externalLinks)

\* the page sections for address u in a document
SectionsFor(doc, u) == {k \in PageSections(doc) : doc[k].url = u}

\* run r fetched u and the fetch succeeded with non-empty text
FetchedWithText(r, u) == \E k \in 1..Len(r.log) : r.log[k].url = u /\ r.log[k].res = "ok"

\* the addresses run r fetched or has a section for
Mentioned(r) ==
    {r.log[k].url : k \in 1..Len(r.log)}
    \cup {r.fullContext[k].url : k \in PageSections(r.fullContext)}

\* fetch number k of run r failed or came back without text
FetchFailed(r, k) == r.log[k].res \in {"fail", "empty"}

\* C16: the document a run returns has a page section for u if and only if the
\* run fetched u with success and non-empty text, and then exactly one; a fetch
\* that failed leaves u in VisitedSet while the run lasts, is not retried by
\* the run, and does not end the run.
C16_SectionIffFetchedWithText ==
    \A i \in RunIds :
        LET r == runs[i]
        IN  /\ r.status = "done" =>
                \A u \in Mentioned(r) :
                    Cardinality(SectionsFor(r.fullContext, u))
                        = (IF FetchedWithText(r, u) THEN 1 ELSE 0)
            /\ \A k \in 1..Len(r.log) :
                  FetchFailed(r, k) =>
                      /\ r.pc # "end" => r.log[k].url \in visitedUrls
                      /\ \A m \in 1..Len(r.log) : r.log[m].url = r.log[k].url => m = k
                      /\ r.status # "failed"

\* a collectContext invocation is between its reset and its return
SomeRunInProgress == \E i \in RunIds : runs[i].pc # "end"

\* the step removes nothing from VisitedSet and ProcessedSpaces
SetsGrow == visitedUrls \subseteq visitedUrls' /\ processedSpaces \subseteq processedSpaces'

\* C17: while a collectContext invocation is in progress no step removes a URL
\* from VisitedSet or a space key from ProcessedSpaces, and a step that removes
\* one is the start of a collectContext invocation.
C17_SetsOnlyGrowDuringRun ==
    [][/\ SomeRunInProgress => SetsGrow
       /\ ~SetsGrow => Len(runs') = Len(runs) + 1]_vars

\* some run fetched the address u
Fetched(u) == \E i \in RunIds : \E k \in 1..Len(runs[i].log) : runs[i].log[k].url = u

\* key is the space key of an accepted seed some run has reached
ReachedSpaceKey(key) ==
    \E i \in RunIds : \E k \in 1..Len(runs[i].valid) :
        k <= runs[i].si /\ ~BadSeed(runs[i], k) /\ SpaceKeyOf(runs[i].valid[k]) = key

\* the crawl of seed k of run i was skipped, and an accepted seed of that space
\* was reached before it in the run or reached by another run
SkipHasValidCause(i, k) ==
    \E j \in RunIds : \E e \in 1..Len(runs[j].valid) :
        /\ ~BadSeed(runs[j], e)
        /\ SpaceKeyOf(runs[j].valid[e]) = SpaceKeyOf(runs[i].valid[k])
        /\ e <= runs[j].si
        /\ j # i \/ e < k

\* C18: a seed the URL classifier rejects triggers no fetch and adds nothing to
\* VisitedSet and ProcessedSpaces: the sets hold only addresses that were
\* fetched and keys of accepted seeds, and a skipped seed is skipped because of
\* an accepted seed of its space, never because of a rejected one.
C18_RejectedSeedTouchesNothing ==
    /\ \A u \in visitedUrls : Fetched(u)
    /\ \A key \in processedSpaces : ReachedSpaceKey(key)
    /\ \A i \in RunIds :
          LET r == runs[i]
          IN  /\ \A k \in 1..Len(r.valid) :
                    BadSeed(r, k) =>
                        /\ \A m \in 1..Len(r.log) : r.log[m].si # k
                        /\ \A h \in 1..Len(r.hist) : r.hist[h].si # k
              /\ \A h \in 1..Len(r.hist) :
                    r.hist[h].skipped => SkipHasValidCause(i, r.hist[h].si)

\* a run returned that met a rejected seed, whose address is not in VisitedSet,
\* and then crawled a later seed
C18_Witness ==
    \E i \in RunIds :
        LET r == runs[i]
        IN  /\ r.status = "done"
            /\ \E k \in 1..Len(r.valid) :
                  /\ BadSeed(r, k)
                  /\ r.valid[k] \notin visitedUrls
                  /\ \E h \in 1..Len(r.hist) :
                        /\ r.hist[h].si > k
                        /\ ~r.hist[h].skipped
                        /\ PhaseFetches(r, r.hist[h].si, 1) # {}

\* the addresses in seq are all different
NoDuplicates(seq) == \A k, m \in 1..Len(seq) : seq[k] = seq[m] => k = m

\* C19: in Phase 1 of a crawl each URL is pushed on the queue at most once; and
\* in a run that overlaps no other, a URL popped from the queue is already in
\* VisitedSet, so that the guard of line 138 skips it, only if it is the seed
\* of the crawl.
C19_SkipOnlyForSeed ==
    \A i \in RunIds :
        LET r == runs[i]
        IN  /\ NoDuplicates(r.queued)
            /\ Alone(i) => \A k \in 1..Len(r.skips) : r.skips[k].url = r.skips[k].seed

\* a run that overlaps no other returned after the guard skipped a seed that an
\* earlier seed's crawl had fetched, and after a Phase 1 that pushed a link
C19_Witness ==
    \E i \in RunIds :
        LET r == runs[i]
        IN  /\ Alone(i)
            /\ r.status = "done"
            /\ r.skips # <<>>
            /\ \E k \in 1..Len(r.log) : r.log[k].url = r.skips[1].url /\ r.log[k].phase = 2
            /\ \E h \in 1..Len(r.hist) : Cardinality(r.hist[h].spacePages) > 1

(***************************************************************************)
(* parseWikiUrl on its own: the input is any string of the bounded set     *)
(* below, and the one action applies the function to it.                   *)
(***************************************************************************)
Segments == {"", "spaces", "S", ".."}

Paths == UNION {[1..k -> Segments] : k \in 0..MaxPathLen}

ParseInputs ==
    {s \in {Str(ws, sch, h, pt, path) :
                ws \in {0, 1}, sch \in {"", "https", "HTTPS"}, h \in {"", "h1", "H1"},
                pt \in {"", "443", "8443"}, path \in Paths} : WellFormed(s)}

Parse ==
    /\ pres = <<>>
    /\ pres' = <<parseWikiUrl(purl)>>
    /\ UNCHANGED <<resources, clock, made, edits, world, visitedUrls, processedSpaces,
                   contextData, runs, purl>>

InitParse ==
    /\ world = 1
    /\ resources = Configured(<<EmptyStr>>)
    /\ clock = 1
    /\ made = 1
    /\ edits = 0
    /\ visitedUrls = {}
    /\ processedSpaces = {}
    /\ contextData = <<>>
    /\ runs = <<>>
    /\ purl \in ParseInputs
    /\ pres = <<>>

NextParse == Parse

SpecParse == InitParse /\ [][NextParse]_vars

\* the pathname of the parsed URL, split at "/"
ParsedPath == PathParts(purl)

\* the indices of the segments "spaces" that a non-empty segment follows
SpacesWithName ==
    {i \in 1..(Len(ParsedPath) - 1) : ParsedPath[i] = "spaces" /\ ParsedPath[i + 1] # ""}

\* the first segment "spaces" of the path, 0 when there is none
FirstSpaces ==
    IF \E i \in 1..Len(ParsedPath) : ParsedPath[i] = "spaces"
    THEN CHOOSE i \in 1..Len(ParsedPath) :
            ParsedPath[i] = "spaces" /\ \A j \in 1..(i - 1) : ParsedPath[j] # "spaces"
    ELSE 0

\* scheme://host[:port] of the parsed URL
ExpectedServer ==
    [scheme |-> ToLower(purl.scheme), host |-> ToLower(purl.host),
     port |-> IF purl.port = DefaultPort(ToLower(purl.scheme)) THEN "" ELSE purl.port]

\* C9 as stated: for every valid absolute URL and every segment "spaces" of its
\* path that a non-empty segment s follows, the result is valid with
\* server = scheme://host[:port] and space = s.
C9_AnySpacesSegment ==
    (pres # <<>> /\ ~UrlThrows(purl)) =>
        \A i \in SpacesWithName :
            /\ pres[1].isValid
            /\ pres[1].wikiServer = ExpectedServer
            /\ pres[1].spaceName = ParsedPath[i + 1]

\* C9 amended: for every valid absolute URL in whose path the FIRST segment
\* "spaces" is followed by a non-empty segment s, the result is valid with
\* server = scheme://host[:port] (lower case, default port dropped) and space = s.
C9_FirstSpacesSegment ==
    (pres # <<>> /\ ~UrlThrows(purl) /\ FirstSpaces \in SpacesWithName) =>
        /\ pres[1].isValid
        /\ DOMAIN pres[1] = {"isValid", "wikiServer", "spaceName"}
        /\ pres[1].wikiServer = ExpectedServer
        /\ pres[1].spaceName = ParsedPath[FirstSpaces + 1]

\* a URL typed in upper case with the default port, two "spaces" segments in
\* its path, classified as valid
C9_Witness ==
    /\ pres # <<>>
    /\ purl.scheme = "HTTPS" /\ purl.port = "443" /\ purl.host = "H1"
    /\ Cardinality(SpacesWithName) = 2
    /\ pres[1].isValid

\* C10: a string that is no valid absolute URL, or in whose path no segment
\* "spaces" is followed by a non-empty segment (there is no "spaces" segment,
\* or each one is the last segment or is followed by an empty segment), gives
\* isValid = false and a result without server and space fields.
C10_InvalidHasNoFields ==
    (pres # <<>> /\ (UrlThrows(purl) \/ SpacesWithName = {})) =>
        /\ ~pres[1].isValid
        /\ DOMAIN pres[1] = {"isValid"}

\* a valid URL whose "spaces" segment is followed by an empty segment: rejected
C10_Witness ==
    /\ pres # <<>>
    /\ ~UrlThrows(purl)
    /\ \E i \in 1..(Len(ParsedPath) - 1) : ParsedPath[i] = "spaces" /\ ParsedPath[i + 1] = ""
    /\ SpacesWithName = {}
    /\ ~pres[1].isValid

====
